---------------------------- MODULE Spec2Model ----------------------------
(***************************************************************************)
(* A model of examples/BiasCorrectionOfWeatherForecasts/biasCorrection     *)
(* .ipynb: the temporal join of the GFS forecast (layer 50195, horizon 6)  *)
(* with the ERA5 reanalysis (layer 49423), the bias queries built from the *)
(* joined timestamps, and the bias-corrected forecast of 2019.             *)
(*                                                                         *)
(* Numbers are exact rationals <<n, d>> with d > 0 in lowest terms; the    *)
(* missing value (NaN) is <<0, 0>>.  A timestamp is the tuple              *)
(* <<year, month, day, hour, minute, second, microsecond>>.                *)
(***************************************************************************)
EXTENDS Integers, Sequences, FiniteSets, TLC

VARIABLES
    pc,                 \* the notebook cell that runs next
    store,              \* the data the remote service holds
    server,             \* per raster query: the service's job status
    pointQuery,         \* pointQuery.vdf, the rows of the first point query
    completeDates,      \* the joined timestamps of 2014-2018
    pointQuery2019,     \* pointQuery2019.vdf
    completeDates2019,  \* the joined timestamps of the first half of 2019
    queries,            \* per raster query: the client-side PAIRSQuery object
    shown               \* the raster queries whose .data a cell has read

vars == <<pc, store, server, pointQuery, completeDates, pointQuery2019,
          completeDates2019, queries, shown>>

-----------------------------------------------------------------------------
(* Bounds of the model.                                                    *)

\* Values a layer holds at one place and time are 1..MaxValue, or missing.
MaxValue == 2

\* Rows of a point-query frame drawn for the join on its own.
MaxRows == 3

-----------------------------------------------------------------------------
(* Exact arithmetic with a missing value.                                  *)

NaN == <<0, 0>>

Abs(x) == IF x < 0 THEN -x ELSE x

RECURSIVE GCD(_, _)
GCD(a, b) == IF b = 0 THEN a ELSE GCD(b, a % b)

\* n/d in lowest terms, d > 0.
Rat(n, d) ==
    LET g == GCD(Abs(n), Abs(d))
        s == IF d < 0 THEN -1 ELSE 1
    IN  <<(s * n) \div g, (s * d) \div g>>

Num(v) == <<v, 1>>

IsNaN(x) == x[2] = 0

\* Arithmetic of the service and of numpy: a missing operand gives a
\* missing result.
Add(x, y) ==
    IF IsNaN(x) \/ IsNaN(y) THEN NaN
    ELSE Rat(x[1] * y[2] + y[1] * x[2], x[2] * y[2])

Sub(x, y) ==
    IF IsNaN(x) \/ IsNaN(y) THEN NaN
    ELSE Rat(x[1] * y[2] - y[1] * x[2], x[2] * y[2])

\* The mean of the values of a sequence that are not missing; missing when
\* there is none (the 'Mean' aggregation, and pandas' mean of a group).
RECURSIVE SumValid(_)
SumValid(s) ==
    IF s = <<>> THEN Num(0)
    ELSE IF IsNaN(Head(s)) THEN SumValid(Tail(s))
    ELSE Add(Head(s), SumValid(Tail(s)))

RECURSIVE CountValid(_)
CountValid(s) ==
    IF s = <<>> THEN 0
    ELSE (IF IsNaN(Head(s)) THEN 0 ELSE 1) + CountValid(Tail(s))

Mean(s) ==
    IF CountValid(s) = 0 THEN NaN
    ELSE Rat(SumValid(s)[1], SumValid(s)[2] * CountValid(s))

-----------------------------------------------------------------------------
(* Time.                                                                   *)

IsLeap(y) == (y % 4 = 0 /\ y % 100 /= 0) \/ y % 400 = 0

DaysInMonth(y, m) ==
    IF m = 2 THEN (IF IsLeap(y) THEN 29 ELSE 28)
    ELSE IF m \in {4, 6, 9, 11} THEN 30 ELSE 31

\* datetime(year, month, day): midnight of that day.
datetime(y, m, d) == <<y, m, d, 0, 0, 0, 0>>

PrevDay(t) ==
    IF t[3] > 1 THEN <<t[1], t[2], t[3] - 1>>
    ELSE IF t[2] > 1 THEN <<t[1], t[2] - 1, DaysInMonth(t[1], t[2] - 1)>>
    ELSE <<t[1] - 1, 12, 31>>

PrevSecond(t) ==
    IF t[6] > 0 THEN <<t[1], t[2], t[3], t[4], t[5], t[6] - 1, t[7]>>
    ELSE IF t[5] > 0 THEN <<t[1], t[2], t[3], t[4], t[5] - 1, 59, t[7]>>
    ELSE IF t[4] > 0 THEN <<t[1], t[2], t[3], t[4] - 1, 59, 59, t[7]>>
    ELSE PrevDay(t) \o <<23, 59, 59, t[7]>>

\* t - timedelta(seconds = n)
RECURSIVE MinusSeconds(_, _)
MinusSeconds(t, n) == IF n = 0 THEN t ELSE MinusSeconds(PrevSecond(t), n - 1)

\* The format '%Y-%m-%dT%H:%M:%SZ' keeps the fields down to the second and
\* drops the microsecond; the string is modelled by the fields it shows.
iso8601 == <<1, 2, 3, 4, 5, 6>>

strftime(t, format) == [i \in 1..Len(format) |-> t[format[i]]]

\* The service reads an ISO 8601 string as the instant at that second.
ParseIso(s) == s \o <<0>>

RECURSIVE LexLess(_, _)
LexLess(a, b) ==
    IF a = <<>> \/ b = <<>> THEN b /= <<>>
    ELSE IF Head(a) /= Head(b) THEN Head(a) < Head(b)
    ELSE LexLess(Tail(a), Tail(b))

Before(a, b) == LexLess(a, b)

\* The elements of a finite set of timestamps, earliest first.
RECURSIVE SortedSeq(_)
SortedSeq(S) ==
    IF S = {} THEN <<>>
    ELSE LET first == CHOOSE t \in S : \A u \in S \ {t} : Before(t, u)
         IN  <<first>> \o SortedSeq(S \ {first})

Range(s) == {s[i] : i \in 1..Len(s)}

-----------------------------------------------------------------------------
(* The temporal join: pivot_table(...).dropna().index                      *)

GFS == "50195"
ERA5 == "49423"
LayerIds == {GFS, ERA5}

\* Labels in the order sort_index gives the columns.
LayerOrder == <<ERA5, GFS>>

\* groupby(['timestamp', 'layerId'])['value']: the values of one group, in
\* row order.
GroupValues(vdf, ts, lid) ==
    LET rows == SelectSeq(vdf, LAMBDA r : r.timestamp = ts /\ r.layerId = lid)
    IN  [i \in 1..Len(rows) |-> rows[i].value]

\* agg('mean') followed by dropna(how = 'all'): the groups whose mean is a
\* number.
AggregatedGroups(vdf) ==
    {k \in {<<vdf[i].timestamp, vdf[i].layerId>> : i \in 1..Len(vdf)} :
        ~IsNaN(Mean(GroupValues(vdf, k[1], k[2])))}

\* pivot_table(index = 'timestamp', columns = 'layerId', values = 'value'):
\* the surviving groups unstacked.  A timestamp is a row and a layer a
\* column only if one of its groups survived; a cell without a group is
\* missing.
pivot_table(vdf) ==
    LET groups == AggregatedGroups(vdf)
        index == SortedSeq({k[1] : k \in groups})
        columns == SelectSeq(LayerOrder, LAMBDA l : l \in {k[2] : k \in groups})
    IN  [index |-> index,
         columns |-> columns,
         cell |-> [ts \in Range(index) |-> [lid \in Range(columns) |->
                     IF <<ts, lid>> \in groups
                     THEN Mean(GroupValues(vdf, ts, lid)) ELSE NaN]]]

\* dropna() gone wrong: only the first column is looked at.
dropnaFirstColumn(table) ==
    [table EXCEPT !.index =
        SelectSeq(table.index,
                  LAMBDA ts : table.columns = <<>>
                              \/ ~IsNaN(table.cell[ts][table.columns[1]]))]

\* DataFrame.dropna(): the rows without a missing cell, in the columns the
\* table has.
dropna(table) ==
    [table EXCEPT !.index =
        SelectSeq(table.index,
                  LAMBDA ts : \A lid \in Range(table.columns) :
                                  ~IsNaN(table.cell[ts][lid]))]

\* The expression of completeDates and completeDates2019.
JoinedTimestamps(vdf) == dropna(pivot_table(vdf)).index

-----------------------------------------------------------------------------
(* The remote service: the data it holds and how it answers a query.  The  *)
(* service is outside the repository; its answers follow the design's      *)
(* sections 4.2, 6 and 7.                                                  *)

PointCell == "40,-100"
FarCell == "elsewhere"
Cells == {PointCell, FarCell}

\* The instants the service may hold data at: three within 2014-2018, one
\* in the first half of 2019.
T1 == datetime(2014, 1, 1)
T2 == datetime(2016, 7, 1)
T3 == datetime(2018, 7, 1)
T4 == datetime(2019, 3, 1)
InnerInstants == {T1, T2, T3, T4}

\* The instant at which the window of pointQueryJson ends, which lies
\* within the window of pointQuery2019Json.
TB == datetime(2019, 1, 1)
StoreInstants == InnerInstants \cup {TB}

Values == {NaN} \cup {Num(v) : v \in 1..MaxValue}

\* What the far cell holds relative to the point, where it is not masked.
CellOffset(lid) == IF lid = GFS THEN Num(1) ELSE Num(0)

\* The value of a layer at an instant and a cell.  Both layers are global
\* fields (notebook, line 119): where the point has data at an instant, so
\* has every cell the layer does not mask.
RasterValue(st, lid, t, c) ==
    IF t \notin StoreInstants THEN NaN
    ELSE IF c = PointCell THEN st.series[lid][t]
    ELSE IF st.masked[lid] THEN NaN
    ELSE Add(st.series[lid][t], CellOffset(lid))

\* start < t <= end, or start < t < end: the notebook moves each start one
\* second back to have the first instant included; whether the service
\* includes the end is the service's choice (st.closedEnd).
InInterval(st, t, interval) ==
    /\ Before(ParseIso(interval.start), t)
    /\ IF st.closedEnd THEN ~Before(ParseIso(interval.end), t)
       ELSE Before(t, ParseIso(interval.end))

\* The rows of a point query: per layer of the query, in time order, one
\* row for each instant of the interval at which the layer has a value.
LayerRows(st, lid, interval) ==
    LET held == {t \in StoreInstants :
                    /\ InInterval(st, t, interval)
                    /\ ~IsNaN(RasterValue(st, lid, t, PointCell))}
        times == SortedSeq(held)
    IN  [i \in 1..Len(times) |->
            [timestamp |-> times[i], layerId |-> lid,
             value |-> RasterValue(st, lid, times[i], PointCell)]]

RECURSIVE PointRows(_, _, _)
PointRows(st, layers, interval) ==
    IF layers = <<>> THEN <<>>
    ELSE LayerRows(st, Head(layers).id, interval)
            \o PointRows(st, Tail(layers), interval)

PointResponse(st, json) ==
    PointRows(st, json.layers, json.temporal.intervals[1])

IsExpression(layer) == "expression" \in DOMAIN layer

\* A data layer with 'aggregation' : 'Mean' at one cell: the mean over the
\* layer's snapshots of the values that are not missing.
AggregatedValue(st, layer, c) ==
    Mean([i \in 1..Len(layer.temporal.intervals) |->
            RasterValue(st, layer.id,
                        ParseIso(layer.temporal.intervals[i].snapshot), c)])

DataLayers(json) == SelectSeq(json.layers, LAMBDA l : ~IsExpression(l))

\* The value of the data layer with the given alias at one cell.
AliasValue(st, json, alias, c) ==
    LET ls == SelectSeq(DataLayers(json), LAMBDA l : l.alias = alias)
    IN  IF ls = <<>> THEN NaN ELSE AggregatedValue(st, ls[1], c)

\* An expression is the sequence of its tokens, operands at the odd places
\* and '+' or '-' between them; it is evaluated from the left.
RECURSIVE EvalExpression(_, _, _, _)
EvalExpression(st, json, e, c) ==
    IF Len(e) = 1 THEN AliasValue(st, json, e[1], c)
    ELSE LET left == EvalExpression(st, json, SubSeq(e, 1, Len(e) - 2), c)
             right == AliasValue(st, json, e[Len(e)], c)
         IN  IF e[Len(e) - 1] = "-" THEN Sub(left, right) ELSE Add(left, right)

\* A layer is part of the result unless it says 'output' : False.
IsOutput(layer) == "output" \notin DOMAIN layer \/ layer.output

\* The result of a raster query: per output layer, by alias, its field.
RasterResult(st, json) ==
    LET outs == SelectSeq(json.layers, IsOutput)
    IN  [a \in {outs[i].alias : i \in 1..Len(outs)} |->
            LET l == CHOOSE x \in Range(outs) : x.alias = a
            IN  [c \in Cells |->
                    IF IsExpression(l)
                    THEN EvalExpression(st, json, l.expression, c)
                    ELSE AggregatedValue(st, l, c)]]

-----------------------------------------------------------------------------
(* The notebook's query payloads.                                          *)

\* [{'snapshot' : ts.strftime(iso8601)} for _, ts in dates.iteritems()]
Snapshots(dates) ==
    [i \in 1..Len(dates) |-> [snapshot |-> strftime(dates[i], iso8601)]]

Horizon6 == <<[name |-> "horizon", value |-> "6"]>>

pointQueryJson ==
    [layers |-> <<[type |-> "raster", id |-> GFS, dimensions |-> Horizon6],
                  [type |-> "raster", id |-> ERA5]>>,
     spatial |-> [type |-> "point", coordinates |-> <<"40", "-100">>],
     temporal |-> [intervals |-> <<
        [start |-> strftime(MinusSeconds(datetime(2014, 1, 1), 1), iso8601),
         end |-> strftime(datetime(2019, 1, 1), iso8601)]>>]]

pointQuery2019Json ==
    [layers |-> <<[type |-> "raster", id |-> GFS, dimensions |-> Horizon6],
                  [type |-> "raster", id |-> ERA5]>>,
     spatial |-> [type |-> "point", coordinates |-> <<"40", "-100">>],
     temporal |-> [intervals |-> <<
        [start |-> strftime(MinusSeconds(datetime(2019, 1, 1), 1), iso8601),
         end |-> strftime(datetime(2019, 7, 1), iso8601)]>>]]

\* The spatial and temporal keys every raster query of the notebook has;
\* each data layer brings its own 'temporal', which the service uses.
Globe == [type |-> "square", coordinates |-> <<"-90", "-170", "90", "170">>]

Year2015 ==
    [intervals |-> <<
        [start |-> strftime(MinusSeconds(datetime(2015, 1, 1), 1), iso8601),
         end |-> strftime(datetime(2016, 1, 1), iso8601)]>>]

\* biasQueryJson gone wrong: the bias expression with its operands exchanged.
biasQueryJsonExchanged(dates) ==
    [layers |-> <<
        [alias |-> <<"gfs">>, type |-> "raster", id |-> GFS,
         dimensions |-> Horizon6, aggregation |-> "Mean",
         temporal |-> [intervals |-> Snapshots(dates)], output |-> FALSE],
        [alias |-> <<"era5">>, type |-> "raster", id |-> ERA5,
         aggregation |-> "Mean",
         temporal |-> [intervals |-> Snapshots(dates)], output |-> FALSE],
        [alias |-> <<"bias">>,
         expression |-> << <<"era5">>, "-", <<"gfs">> >>] >>,
     spatial |-> Globe,
     temporal |-> Year2015]

\* biasQueryJson gone wrong: the bias expression adds.
biasQueryJsonSum(dates) ==
    [layers |-> <<
        [alias |-> <<"gfs">>, type |-> "raster", id |-> GFS,
         dimensions |-> Horizon6, aggregation |-> "Mean",
         temporal |-> [intervals |-> Snapshots(dates)], output |-> FALSE],
        [alias |-> <<"era5">>, type |-> "raster", id |-> ERA5,
         aggregation |-> "Mean",
         temporal |-> [intervals |-> Snapshots(dates)], output |-> FALSE],
        [alias |-> <<"bias">>,
         expression |-> << <<"gfs">>, "+", <<"era5">> >>] >>,
     spatial |-> Globe,
     temporal |-> Year2015]

\* biasQueryJson gone wrong: the reference is aggregated over another
\* snapshot list than the forecast.
biasQueryJsonOtherSnapshots(dates) ==
    [layers |-> <<
        [alias |-> <<"gfs">>, type |-> "raster", id |-> GFS,
         dimensions |-> Horizon6, aggregation |-> "Mean",
         temporal |-> [intervals |-> Snapshots(dates)], output |-> FALSE],
        [alias |-> <<"era5">>, type |-> "raster", id |-> ERA5,
         aggregation |-> "Mean",
         temporal |-> [intervals |->
            Snapshots(IF dates = <<>> THEN <<>> ELSE <<Head(dates)>>)],
         output |-> FALSE],
        [alias |-> <<"bias">>,
         expression |-> << <<"gfs">>, "-", <<"era5">> >>] >>,
     spatial |-> Globe,
     temporal |-> Year2015]

biasQueryJson(dates) ==
    [layers |-> <<
        [alias |-> <<"gfs">>, type |-> "raster", id |-> GFS,
         dimensions |-> Horizon6, aggregation |-> "Mean",
         temporal |-> [intervals |-> Snapshots(dates)], output |-> FALSE],
        [alias |-> <<"era5">>, type |-> "raster", id |-> ERA5,
         aggregation |-> "Mean",
         temporal |-> [intervals |-> Snapshots(dates)], output |-> FALSE],
        [alias |-> <<"bias">>,
         expression |-> << <<"gfs">>, "-", <<"era5">> >>] >>,
     spatial |-> Globe,
     temporal |-> Year2015]

\* The three layers of one year; 'gfs_{}'.format(year) is <<"gfs", year>>.
YearLayers(dates, year) ==
    LET ofYear == SelectSeq(dates, LAMBDA ts : ts[1] = year)
    IN  <<[alias |-> <<"gfs", year>>, type |-> "raster", id |-> GFS,
           dimensions |-> Horizon6, aggregation |-> "Mean",
           temporal |-> [intervals |-> Snapshots(ofYear)], output |-> FALSE],
          [alias |-> <<"era5", year>>, type |-> "raster", id |-> ERA5,
           aggregation |-> "Mean",
           temporal |-> [intervals |-> Snapshots(ofYear)], output |-> FALSE],
          [alias |-> <<"bias", year>>,
           expression |-> << <<"gfs", year>>, "-", <<"era5", year>> >>] >>

\* [ll for l in annualLayers for ll in l], for year in range(2014, 2019)
RECURSIVE annualLayers(_, _)
annualLayers(dates, year) ==
    IF year >= 2019 THEN <<>>
    ELSE YearLayers(dates, year) \o annualLayers(dates, year + 1)

annualBiasQueryJson(dates) ==
    [layers |-> annualLayers(dates, 2014),
     spatial |-> Globe,
     temporal |-> Year2015]

\* The data layers of biasCorrectedQueryJson.
CorrectedDataLayers(dates, dates2019) ==
    <<[alias |-> <<"historic_gfs">>, type |-> "raster", id |-> GFS,
       dimensions |-> Horizon6, aggregation |-> "Mean",
       temporal |-> [intervals |-> Snapshots(dates)], output |-> FALSE],
      [alias |-> <<"historic_era5">>, type |-> "raster", id |-> ERA5,
       aggregation |-> "Mean",
       temporal |-> [intervals |-> Snapshots(dates)], output |-> FALSE],
      [alias |-> <<"gfs">>, type |-> "raster", id |-> GFS,
       dimensions |-> Horizon6, aggregation |-> "Mean",
       temporal |-> [intervals |-> Snapshots(dates2019)], output |-> FALSE],
      [alias |-> <<"era5">>, type |-> "raster", id |-> ERA5,
       aggregation |-> "Mean",
       temporal |-> [intervals |-> Snapshots(dates2019)], output |-> FALSE]>>

\* biasCorrectedQueryJson gone wrong: the bias is added to the forecast.
biasCorrectedQueryJsonSign(dates, dates2019) ==
    [layers |-> CorrectedDataLayers(dates, dates2019) \o <<
        [alias |-> <<"bias">>,
         expression |-> << <<"gfs">>, "-", <<"era5">> >>,
         output |-> TRUE],
        [alias |-> <<"bias_corrected_forecast">>,
         expression |-> << <<"gfs">>, "+", <<"historic_gfs">>, "-",
                           <<"historic_era5">> >>,
         output |-> TRUE],
        [alias |-> <<"bias_of_bias_corrected_forecast">>,
         expression |-> << <<"gfs">>, "-", <<"historic_gfs">>, "+",
                           <<"historic_era5">>, "-", <<"era5">> >>,
         output |-> TRUE] >>,
     spatial |-> Globe,
     temporal |-> Year2015]

\* biasCorrectedQueryJson gone wrong: the residual bias leaves out '- $era5'.
biasCorrectedQueryJsonNoReference(dates, dates2019) ==
    [layers |-> CorrectedDataLayers(dates, dates2019) \o <<
        [alias |-> <<"bias">>,
         expression |-> << <<"gfs">>, "-", <<"era5">> >>,
         output |-> TRUE],
        [alias |-> <<"bias_corrected_forecast">>,
         expression |-> << <<"gfs">>, "-", <<"historic_gfs">>, "+",
                           <<"historic_era5">> >>,
         output |-> TRUE],
        [alias |-> <<"bias_of_bias_corrected_forecast">>,
         expression |-> << <<"gfs">>, "-", <<"historic_gfs">>, "+",
                           <<"historic_era5">> >>,
         output |-> TRUE] >>,
     spatial |-> Globe,
     temporal |-> Year2015]

\* biasCorrectedQueryJson gone wrong: the residual bias adds the reference.
biasCorrectedQueryJsonPlusReference(dates, dates2019) ==
    [layers |-> CorrectedDataLayers(dates, dates2019) \o <<
        [alias |-> <<"bias">>,
         expression |-> << <<"gfs">>, "-", <<"era5">> >>,
         output |-> TRUE],
        [alias |-> <<"bias_corrected_forecast">>,
         expression |-> << <<"gfs">>, "-", <<"historic_gfs">>, "+",
                           <<"historic_era5">> >>,
         output |-> TRUE],
        [alias |-> <<"bias_of_bias_corrected_forecast">>,
         expression |-> << <<"gfs">>, "-", <<"historic_gfs">>, "+",
                           <<"historic_era5">>, "+", <<"era5">> >>,
         output |-> TRUE] >>,
     spatial |-> Globe,
     temporal |-> Year2015]

biasCorrectedQueryJson(dates, dates2019) ==
    [layers |-> <<
        [alias |-> <<"historic_gfs">>, type |-> "raster", id |-> GFS,
         dimensions |-> Horizon6, aggregation |-> "Mean",
         temporal |-> [intervals |-> Snapshots(dates)], output |-> FALSE],
        [alias |-> <<"historic_era5">>, type |-> "raster", id |-> ERA5,
         aggregation |-> "Mean",
         temporal |-> [intervals |-> Snapshots(dates)], output |-> FALSE],
        [alias |-> <<"gfs">>, type |-> "raster", id |-> GFS,
         dimensions |-> Horizon6, aggregation |-> "Mean",
         temporal |-> [intervals |-> Snapshots(dates2019)], output |-> FALSE],
        [alias |-> <<"era5">>, type |-> "raster", id |-> ERA5,
         aggregation |-> "Mean",
         temporal |-> [intervals |-> Snapshots(dates2019)], output |-> FALSE],
        [alias |-> <<"bias">>,
         expression |-> << <<"gfs">>, "-", <<"era5">> >>,
         output |-> TRUE],
        [alias |-> <<"bias_corrected_forecast">>,
         expression |-> << <<"gfs">>, "-", <<"historic_gfs">>, "+",
                           <<"historic_era5">> >>,
         output |-> TRUE],
        [alias |-> <<"bias_of_bias_corrected_forecast">>,
         expression |-> << <<"gfs">>, "-", <<"historic_gfs">>, "+",
                           <<"historic_era5">>, "-", <<"era5">> >>,
         output |-> TRUE] >>,
     spatial |-> Globe,
     temporal |-> Year2015]

-----------------------------------------------------------------------------
(* The client library's query object (paw.PAIRSQuery).  The library is not *)
(* among the sources; its methods follow the design's section 6: a query   *)
(* is submitted, polled until a terminal status, and its result fetched.   *)

RasterQueries == {"biasQuery", "annualBiasQuery", "biasCorrectedQuery"}

Terminal == {"succeeded", "failed"}

\* paw.PAIRSQuery(json, PAIRS_SERVER, PAIRS_CREDENTIALS)
PAIRSQuery(json) ==
    [json |-> json, queryStatus |-> "none", fetchedAt |-> "none",
     downloaded |-> FALSE, data |-> <<>>]

\* poll(): queryStatus becomes the status the service reports.
poll(q, status) == [q EXCEPT !.queryStatus = status]

\* download(): fetches the result files; the service has them only for a
\* query that succeeded.  fetchedAt records the status the fetch was made
\* at.
download(q, status) ==
    [q EXCEPT !.fetchedAt = status, !.downloaded = (status = "succeeded")]

\* create_layers(): loads the downloaded files, the query's result, into
\* .data.
create_layers(q, result) ==
    [q EXCEPT !.data = IF q.downloaded THEN result ELSE <<>>]

-----------------------------------------------------------------------------
(* The notebook, cell by cell (Run All: a cell that raises ends the run).  *)

\* pointQuery = paw.PAIRSQuery(...); pointQuery.submit(): a point query
\* returns its rows with the submission.  The frame holds the 'value'
\* column as numbers, as pd.to_numeric leaves it.
PointQueryCell ==
    /\ pc = "pointQuery"
    /\ pointQuery' = PointResponse(store, pointQueryJson)
    /\ pc' = "completeDates"
    /\ UNCHANGED <<store, server, completeDates, pointQuery2019,
                   completeDates2019, queries, shown>>

CompleteDatesCell ==
    /\ pc = "completeDates"
    /\ completeDates' = JoinedTimestamps(pointQuery)
    /\ pc' = "biasQuery"
    /\ UNCHANGED <<store, server, pointQuery, pointQuery2019,
                   completeDates2019, queries, shown>>

PointQuery2019Cell ==
    /\ pc = "pointQuery2019"
    /\ pointQuery2019' = PointResponse(store, pointQuery2019Json)
    /\ pc' = "completeDates2019"
    /\ UNCHANGED <<store, server, pointQuery, completeDates,
                   completeDates2019, queries, shown>>

CompleteDates2019Cell ==
    /\ pc = "completeDates2019"
    /\ completeDates2019' = JoinedTimestamps(pointQuery2019)
    /\ pc' = "biasCorrectedQuery"
    /\ UNCHANGED <<store, server, pointQuery, completeDates, pointQuery2019,
                   queries, shown>>

\* q = paw.PAIRSQuery(json, ...); q.submit()
SubmitCell(q, json, next) ==
    /\ pc = q
    /\ queries' = [queries EXCEPT ![q] = PAIRSQuery(json)]
    /\ server' = [server EXCEPT ![q] = "pending"]
    /\ pc' = next
    /\ UNCHANGED <<store, pointQuery, completeDates, pointQuery2019,
                   completeDates2019, shown>>

\* q.poll(); q.queryStatus.json()['status']
PollCell(q, here, next) ==
    /\ pc = here
    /\ queries' = [queries EXCEPT ![q] = poll(@, server[q])]
    /\ pc' = next
    /\ UNCHANGED <<store, server, pointQuery, completeDates, pointQuery2019,
                   completeDates2019, shown>>

\* The cell gone wrong: the result is fetched after one poll, without
\* waiting for a terminal status.
FinishCellNoWait(q, here, next) ==
    /\ pc = here
    /\ queries' = [queries EXCEPT ![q] =
          create_layers(download(poll(@, server[q]), server[q]),
                        RasterResult(store, @.json))]
    /\ pc' = next
    /\ UNCHANGED <<store, server, pointQuery, completeDates, pointQuery2019,
                   completeDates2019, shown>>

\* The cell gone wrong: the two calls after poll_till_finished run at any
\* terminal status, a failure included.
FinishCellIgnoringFailure(q, here, next) ==
    /\ pc = here
    /\ \/ /\ server[q] \notin Terminal
          /\ queries' = [queries EXCEPT ![q] = poll(@, server[q])]
          /\ pc' = here
       \/ /\ server[q] \in Terminal
          /\ queries' = [queries EXCEPT ![q] =
                create_layers(download(poll(@, server[q]), server[q]),
                              RasterResult(store, @.json))]
          /\ pc' = next
    /\ UNCHANGED <<store, server, pointQuery, completeDates, pointQuery2019,
                   completeDates2019, shown>>

\* q.poll_till_finished(); q.download(); q.create_layers()
\* poll_till_finished polls until the status is terminal and raises for a
\* query that failed; the two calls after it run once it has returned.
FinishCell(q, here, next) ==
    /\ pc = here
    /\ \/ /\ server[q] \notin Terminal
          /\ queries' = [queries EXCEPT ![q] = poll(@, server[q])]
          /\ pc' = here
       \/ /\ server[q] = "failed"
          /\ queries' = [queries EXCEPT ![q] = poll(@, server[q])]
          /\ pc' = "aborted"
       \/ /\ server[q] = "succeeded"
          /\ queries' = [queries EXCEPT ![q] =
                create_layers(download(poll(@, server[q]), server[q]),
                              RasterResult(store, @.json))]
          /\ pc' = next
    /\ UNCHANGED <<store, server, pointQuery, completeDates, pointQuery2019,
                   completeDates2019, shown>>

\* The cells that plot and summarise q.data[key]: a key that .data does
\* not have raises KeyError.
ShowCell(q, key, here, next) ==
    /\ pc = here
    /\ IF key \in DOMAIN queries[q].data
       THEN shown' = shown \cup {q} /\ pc' = next
       ELSE shown' = shown /\ pc' = "aborted"
    /\ UNCHANGED <<store, server, pointQuery, completeDates, pointQuery2019,
                   completeDates2019, queries>>

BiasQuerySubmit ==
    SubmitCell("biasQuery", biasQueryJson(completeDates), "biasQuery.poll")

BiasQueryPoll == PollCell("biasQuery", "biasQuery.poll", "biasQuery.finish")

BiasQueryFinish ==
    FinishCell("biasQuery", "biasQuery.finish", "biasQuery.show")

BiasQueryShow ==
    ShowCell("biasQuery", <<"bias">>, "biasQuery.show", "annualBiasQuery")

AnnualBiasQuerySubmit ==
    SubmitCell("annualBiasQuery", annualBiasQueryJson(completeDates),
               "annualBiasQuery.poll")

AnnualBiasQueryPoll ==
    PollCell("annualBiasQuery", "annualBiasQuery.poll",
             "annualBiasQuery.finish")

AnnualBiasQueryFinish ==
    FinishCell("annualBiasQuery", "annualBiasQuery.finish",
               "annualBiasQuery.show")

AnnualBiasQueryShow ==
    ShowCell("annualBiasQuery", <<"bias", 2014>>, "annualBiasQuery.show",
             "pointQuery2019")

BiasCorrectedQuerySubmit ==
    SubmitCell("biasCorrectedQuery",
               biasCorrectedQueryJson(completeDates, completeDates2019),
               "biasCorrectedQuery.finish")

BiasCorrectedQueryFinish ==
    FinishCell("biasCorrectedQuery", "biasCorrectedQuery.finish",
               "biasCorrectedQuery.show")

BiasCorrectedQueryShow ==
    ShowCell("biasCorrectedQuery", <<"bias_of_bias_corrected_forecast">>,
             "biasCorrectedQuery.show", "done")

\* The service works on a submitted query on its own; a submission it
\* rejects fails before it runs.
ServiceStep(q) ==
    /\ \/ server[q] = "pending" /\ server' = [server EXCEPT ![q] = "running"]
       \/ server[q] = "pending" /\ server' = [server EXCEPT ![q] = "failed"]
       \/ server[q] = "running" /\ server' = [server EXCEPT ![q] = "succeeded"]
       \/ server[q] = "running" /\ server' = [server EXCEPT ![q] = "failed"]
    /\ UNCHANGED <<pc, store, pointQuery, completeDates, pointQuery2019,
                   completeDates2019, queries, shown>>

-----------------------------------------------------------------------------
(* The data the service may hold.                                          *)

\* What a layer may hold in the target period: nothing, or the largest
\* value.
TargetValues == {NaN, Num(MaxValue)}

\* Any values at T1 and T2, none at T3 and TB and a target value at T4,
\* with at most one of the layers masked at the far cell.  No instant lies
\* on the end of a window, so that closedEnd makes no difference here.
GenericStores ==
    {[series |-> [l \in LayerIds |-> s[l] @@ (TB :> NaN)], masked |-> m,
      closedEnd |-> TRUE] :
        s \in {x \in [LayerIds -> [InnerInstants -> Values]] :
                  \A l \in LayerIds :
                      x[l][T3] = NaN /\ x[l][T4] \in TargetValues},
        m \in {x \in [LayerIds -> BOOLEAN] : ~(x[GFS] /\ x[ERA5])}}

\* Data around the turn of the year 2018/2019: nothing or a value at T1, TB
\* and T4, no mask, and either convention for the end of a window.
BoundaryStores ==
    {[series |-> [l \in LayerIds |-> s[l] @@ (T2 :> NaN) @@ (T3 :> NaN)],
      masked |-> [l \in LayerIds |-> FALSE], closedEnd |-> e] :
        s \in [LayerIds -> [{T1, TB, T4} -> TargetValues]],
        e \in BOOLEAN}

\* The design's scenario: F = {(t1,10),(t2,12),(t3,missing)} and
\* R = {(t1,9),(t2,11),(t3,8)}, and a target forecast of 15.
ScenarioStore ==
    [series |->
        (GFS :> (T1 :> Num(10) @@ T2 :> Num(12) @@ T3 :> NaN @@ TB :> NaN
                 @@ T4 :> Num(15))
         @@ ERA5 :> (T1 :> Num(9) @@ T2 :> Num(11) @@ T3 :> Num(8)
                     @@ TB :> NaN @@ T4 :> Num(13))),
     masked |-> [l \in LayerIds |-> FALSE],
     closedEnd |-> TRUE]

Stores == GenericStores \cup {ScenarioStore}

Init ==
    /\ pc = "pointQuery"
    /\ store \in Stores
    /\ server = [q \in RasterQueries |-> "none"]
    /\ pointQuery = <<>>
    /\ completeDates = <<>>
    /\ pointQuery2019 = <<>>
    /\ completeDates2019 = <<>>
    /\ queries = [q \in RasterQueries |-> PAIRSQuery(<<>>)]
    /\ shown = {}

Next ==
    \/ PointQueryCell
    \/ CompleteDatesCell
    \/ BiasQuerySubmit
    \/ BiasQueryPoll
    \/ BiasQueryFinish
    \/ BiasQueryShow
    \/ AnnualBiasQuerySubmit
    \/ AnnualBiasQueryPoll
    \/ AnnualBiasQueryFinish
    \/ AnnualBiasQueryShow
    \/ PointQuery2019Cell
    \/ CompleteDates2019Cell
    \/ BiasCorrectedQuerySubmit
    \/ BiasCorrectedQueryFinish
    \/ BiasCorrectedQueryShow
    \/ \E q \in RasterQueries : ServiceStep(q)

Spec == Init /\ [][Next]_vars

\* The notebook on the data around the turn of the year 2018/2019.
InitWindows ==
    /\ pc = "pointQuery"
    /\ store \in BoundaryStores
    /\ server = [q \in RasterQueries |-> "none"]
    /\ pointQuery = <<>>
    /\ completeDates = <<>>
    /\ pointQuery2019 = <<>>
    /\ completeDates2019 = <<>>
    /\ queries = [q \in RasterQueries |-> PAIRSQuery(<<>>)]
    /\ shown = {}

SpecWindows == InitWindows /\ [][Next]_vars

-----------------------------------------------------------------------------
(* The join on its own, over frames of a few rows in any order, with       *)
(* repeated and missing values.                                            *)

H0 == datetime(2014, 1, 1)
H1 == <<2014, 1, 1, 1, 0, 0, 0>>
D2 == datetime(2014, 1, 2)
JoinInstants == {H0, H1, D2}

\* The join looks at whether a value is missing, not at the number.
Rows == [timestamp : JoinInstants, layerId : LayerIds, value : {NaN, Num(1)}]

Frames == UNION {[1..n -> Rows] : n \in 0..MaxRows}

InitJoin ==
    /\ pc = "join"
    /\ pointQuery \in Frames
    /\ completeDates = <<>>
    /\ store = ScenarioStore
    /\ server = [q \in RasterQueries |-> "none"]
    /\ pointQuery2019 = <<>>
    /\ completeDates2019 = <<>>
    /\ queries = [q \in RasterQueries |-> PAIRSQuery(<<>>)]
    /\ shown = {}

JoinCell ==
    /\ pc = "join"
    /\ completeDates' = JoinedTimestamps(pointQuery)
    /\ pc' = "joined"
    /\ UNCHANGED <<store, server, pointQuery, pointQuery2019,
                   completeDates2019, queries, shown>>

SpecJoin == InitJoin /\ [][JoinCell]_vars

-----------------------------------------------------------------------------
(* Properties of the temporal join.                                        *)

\* The timestamps a layer has a row for, and those it has a number at.
TimestampsOf(vdf, lid) ==
    {vdf[i].timestamp : i \in {j \in 1..Len(vdf) : vdf[j].layerId = lid}}

DefinedAt(vdf, lid) ==
    {vdf[i].timestamp :
        i \in {j \in 1..Len(vdf) :
                  vdf[j].layerId = lid /\ ~IsNaN(vdf[j].value)}}

JointlyDefined(vdf) == DefinedAt(vdf, GFS) \cap DefinedAt(vdf, ERA5)

Chronological(s) ==
    \A i \in 1..Len(s) : \A j \in 1..Len(s) : i < j => Before(s[i], s[j])

\* completeDates has been computed; completeDates2019 has been computed.
JoinDone == pc \notin {"join", "pointQuery", "completeDates"}

Join2019Done ==
    pc \in {"biasCorrectedQuery", "biasCorrectedQuery.finish",
            "biasCorrectedQuery.show", "done"}

SoundJoin(vdf, dates) ==
    \A t \in Range(dates) :
        /\ t \in TimestampsOf(vdf, GFS) \cup TimestampsOf(vdf, ERA5)
        /\ t \in DefinedAt(vdf, GFS)
        /\ t \in DefinedAt(vdf, ERA5)

\* C1: every joined timestamp is a timestamp of one of the two series and
\* has a value that is not missing in both of them, for completeDates and
\* for completeDates2019.
C1_JoinedHaveBothValues ==
    /\ JoinDone => SoundJoin(pointQuery, completeDates)
    /\ Join2019Done => SoundJoin(pointQuery2019, completeDates2019)

SameDay(t, u) == t[1] = u[1] /\ t[2] = u[2] /\ t[3] = u[3]

\* C2: the joined timestamps are exactly the timestamps at which both
\* series have a value, in chronological order, so that no day has more
\* joined timestamps than either series has values on that day.
C2_JoinIsExactIntersection ==
    JoinDone =>
        /\ Range(completeDates) = JointlyDefined(pointQuery)
        /\ Chronological(completeDates)
        /\ \A lid \in LayerIds : \A t \in Range(completeDates) :
              Cardinality({u \in Range(completeDates) : SameDay(t, u)})
                  <= Cardinality({u \in DefinedAt(pointQuery, lid) :
                                     SameDay(t, u)})

\* The frame with the two layers' labels exchanged, and the frame with its
\* rows in the opposite order.
SwapLayers(vdf) ==
    [i \in 1..Len(vdf) |->
        [vdf[i] EXCEPT !.layerId = IF @ = GFS THEN ERA5 ELSE GFS]]

Reverse(s) == [i \in 1..Len(s) |-> s[Len(s) + 1 - i]]

\* C3: the joined timestamps do not depend on which series is given first:
\* exchanging the two series, or the order of the rows, gives the same
\* timestamps.
C3_JoinSymmetric ==
    pc = "joined" =>
        /\ completeDates = JoinedTimestamps(SwapLayers(pointQuery))
        /\ completeDates = JoinedTimestamps(Reverse(pointQuery))

C3_Witness ==
    /\ pc = "joined"
    /\ completeDates /= <<>>
    /\ Head(pointQuery).layerId = GFS
    /\ DefinedAt(pointQuery, GFS) /= DefinedAt(pointQuery, ERA5)

AllMissing(field) == \A c \in Cells : IsNaN(field[c])

\* C4: if either series has no value, the joined set is empty whatever the
\* other series holds, and the bias field of biasQuery is missing at every
\* cell.
C4_EmptyJoinWhenASeriesIsEmpty ==
    (JoinDone /\ \E lid \in LayerIds : DefinedAt(pointQuery, lid) = {}) =>
        /\ completeDates = <<>>
        /\ <<"bias">> \in DOMAIN queries["biasQuery"].data =>
              AllMissing(queries["biasQuery"].data[<<"bias">>])

-----------------------------------------------------------------------------
(* Properties of the bias and of the corrected forecast.                   *)

HasData(q) == DOMAIN queries[q].data /= {}

\* What a layer holds at one cell at each of the given timestamps.
SamplesAt(lid, dates, c) ==
    [i \in 1..Len(dates) |-> RasterValue(store, lid, dates[i], c)]

ValidCount(s) == Cardinality({i \in 1..Len(s) : ~IsNaN(s[i])})

\* The sum of the samples that are not missing (the store holds whole
\* numbers).
RECURSIVE ValidSum(_)
ValidSum(s) ==
    IF s = <<>> THEN 0
    ELSE (IF IsNaN(Head(s)) THEN 0 ELSE Head(s)[1]) + ValidSum(Tail(s))

\* b is mean(f) - mean(r), each mean over the samples that are not missing:
\* b = n/d with n/d = sum(f)/count(f) - sum(r)/count(r), and missing when
\* either count is 0.
IsMeanDifference(b, f, r) ==
    IF ValidCount(f) = 0 \/ ValidCount(r) = 0 THEN b = NaN
    ELSE /\ b[2] > 0
         /\ b[1] * ValidCount(f) * ValidCount(r)
              = b[2] * (ValidSum(f) * ValidCount(r)
                          - ValidSum(r) * ValidCount(f))

\* C5: the bias of biasQuery is, cell by cell, the mean of the forecast at
\* the joined timestamps minus the mean of the reference at the same
\* timestamps, the two layers having the same snapshot list; in the
\* scenario F = {(t1,10),(t2,12),(t3,missing)}, R = {(t1,9),(t2,11),(t3,8)}
\* the joined timestamps are t1, t2 and the bias is 1.
C5_BiasIsDifferenceOfMeans ==
    HasData("biasQuery") =>
        LET json == queries["biasQuery"].json
            bias == queries["biasQuery"].data[<<"bias">>]
        IN  /\ json.layers[1].temporal.intervals
                  = json.layers[2].temporal.intervals
            /\ Len(json.layers[1].temporal.intervals) = Len(completeDates)
            /\ \A c \in Cells :
                  IsMeanDifference(bias[c],
                                   SamplesAt(GFS, completeDates, c),
                                   SamplesAt(ERA5, completeDates, c))
            /\ store = ScenarioStore =>
                  completeDates = <<T1, T2>> /\ bias[PointCell] = Num(1)

C5_Witness ==
    /\ pc = "biasQuery.show"
    /\ store = ScenarioStore
    /\ queries["biasQuery"].data[<<"bias">>][PointCell] = Num(1)

SameField(c) ==
    \A t \in StoreInstants :
        RasterValue(store, GFS, t, c) = RasterValue(store, ERA5, t, c)

\* C6: at a cell where forecast and reference are the same field, the bias
\* is 0 wherever that field has a value among the joined timestamps (and
\* missing elsewhere).
C6_BiasOfAFieldWithItselfIsZero ==
    HasData("biasQuery") =>
        \A c \in Cells :
            SameField(c) =>
                queries["biasQuery"].data[<<"bias">>][c]
                    = IF ValidCount(SamplesAt(GFS, completeDates, c)) = 0
                      THEN NaN ELSE Num(0)

C6_Witness ==
    /\ HasData("biasQuery")
    /\ SameField(PointCell)
    /\ store.series[GFS][T1] = Num(1)
    /\ store.series[GFS][T2] = Num(2)
    /\ queries["biasQuery"].data[<<"bias">>][PointCell] = Num(0)

\* The temporal mean of a layer at one cell over the given timestamps.
MeanAt(lid, dates, c) == Mean(SamplesAt(lid, dates, c))

BaselineBias(c) ==
    Sub(MeanAt(GFS, completeDates, c), MeanAt(ERA5, completeDates, c))

Corrected(c) ==
    queries["biasCorrectedQuery"].data[<<"bias_corrected_forecast">>][c]

Residual(c) ==
    queries["biasCorrectedQuery"].data[
        <<"bias_of_bias_corrected_forecast">>][c]

TargetBias(c) == queries["biasCorrectedQuery"].data[<<"bias">>][c]

\* C7: the corrected forecast is, cell by cell, the target forecast minus
\* the baseline bias; a bias of 0 leaves the target forecast as it is, and a
\* target of 15 with a bias of 1 gives 14.
C7_CorrectedIsTargetMinusBias ==
    HasData("biasCorrectedQuery") =>
        \A c \in Cells :
            LET target == MeanAt(GFS, completeDates2019, c)
            IN  /\ Corrected(c) = Sub(target, BaselineBias(c))
                /\ BaselineBias(c) = Num(0) => Corrected(c) = target
                /\ (target = Num(15) /\ BaselineBias(c) = Num(1))
                      => Corrected(c) = Num(14)

C7_Witness ==
    /\ HasData("biasCorrectedQuery")
    /\ MeanAt(GFS, completeDates2019, PointCell) = Num(15)
    /\ BaselineBias(PointCell) = Num(1)
    /\ Corrected(PointCell) = Num(14)

\* C8: a cell of the bias is missing exactly when the forecast mean or the
\* reference mean is missing there; a cell of the target bias, of the
\* corrected forecast and of the residual bias is missing whenever one of
\* the layers its expression names is missing there, and is a number
\* otherwise.
C8_MissingPropagates ==
    /\ HasData("biasQuery") =>
          \A c \in Cells :
              IsNaN(queries["biasQuery"].data[<<"bias">>][c])
                  <=> \/ IsNaN(MeanAt(GFS, completeDates, c))
                      \/ IsNaN(MeanAt(ERA5, completeDates, c))
    /\ HasData("biasCorrectedQuery") =>
          \A c \in Cells :
              LET gfs == MeanAt(GFS, completeDates2019, c)
                  era5 == MeanAt(ERA5, completeDates2019, c)
                  historic_gfs == MeanAt(GFS, completeDates, c)
                  historic_era5 == MeanAt(ERA5, completeDates, c)
              IN  /\ IsNaN(TargetBias(c)) <=> (IsNaN(gfs) \/ IsNaN(era5))
                  /\ IsNaN(Corrected(c))
                        <=> \/ IsNaN(gfs)
                            \/ IsNaN(historic_gfs)
                            \/ IsNaN(historic_era5)
                  /\ IsNaN(Residual(c))
                        <=> \/ IsNaN(gfs)
                            \/ IsNaN(historic_gfs)
                            \/ IsNaN(historic_era5)
                            \/ IsNaN(era5)

C8_Witness ==
    /\ pc = "done"
    /\ ~IsNaN(Residual(PointCell))
    /\ ~IsNaN(MeanAt(GFS, completeDates2019, FarCell))
    /\ ~IsNaN(MeanAt(GFS, completeDates, FarCell))
    /\ IsNaN(MeanAt(ERA5, completeDates, FarCell))
    /\ IsNaN(Corrected(FarCell))
    /\ IsNaN(Residual(FarCell))

\* C9: the residual bias is, cell by cell, the corrected forecast minus the
\* reference mean of the target period, which is the bias of the raw target
\* forecast minus the baseline bias.
C9_ResidualIsCorrectedMinusReference ==
    HasData("biasCorrectedQuery") =>
        \A c \in Cells :
            /\ Residual(c)
                  = Sub(Corrected(c), MeanAt(ERA5, completeDates2019, c))
            /\ Residual(c) = Sub(TargetBias(c), BaselineBias(c))

C9_Witness ==
    /\ HasData("biasCorrectedQuery")
    /\ ~IsNaN(Residual(PointCell))
    /\ Residual(PointCell) /= Num(0)
    /\ Residual(PointCell) /= TargetBias(PointCell)
    /\ Residual(PointCell) /= Corrected(PointCell)

-----------------------------------------------------------------------------
(* Properties of the query life cycle.                                     *)

QueryOrder == <<"biasQuery", "annualBiasQuery", "biasCorrectedQuery">>

Position(q) == CHOOSE i \in 1..Len(QueryOrder) : QueryOrder[i] = q

Untouched(q) ==
    /\ queries[q].fetchedAt = "none"
    /\ ~queries[q].downloaded
    /\ ~HasData(q)
    /\ q \notin shown

\* The cell that waits for q and fetches its result.
FinishAt(q) ==
    IF q = "biasQuery" THEN "biasQuery.finish"
    ELSE IF q = "annualBiasQuery" THEN "annualBiasQuery.finish"
    ELSE "biasCorrectedQuery.finish"

DifferencesAt(dates, c) ==
    [i \in 1..Len(dates) |->
        Sub(RasterValue(store, GFS, dates[i], c),
            RasterValue(store, ERA5, dates[i], c))]

-----------------------------------------------------------------------------
(* Properties of the baseline and target periods.                          *)

\* C13: no timestamp is both among the baseline's joined timestamps
\* (completeDates) and among the target's (completeDates2019), and every
\* baseline timestamp is earlier than every target timestamp.
C13_BaselineAndTargetAreSeparate ==
    Join2019Done =>
        /\ Range(completeDates) \cap Range(completeDates2019) = {}
        /\ \A t \in Range(completeDates) :
              \A u \in Range(completeDates2019) : Before(t, u)

\* The years annualLayers has layers for.
Years == 2014..2018

\* The snapshots of the layer of annualBiasQuery with the given alias.
AnnualSnapshots(alias) ==
    LET layers == queries["annualBiasQuery"].json.layers
        l == CHOOSE i \in 1..Len(layers) : layers[i].alias = alias
    IN  Range(layers[l].temporal.intervals)

\* C14: once annualBiasQuery is built, every joined timestamp is in the
\* snapshot list of exactly one year of 2014..2018, the forecast and the
\* reference layer of a year have the same snapshot list, and the years
\* together hold the snapshots of biasQuery.
C14_AnnualLayersPartitionTheJoin ==
    server["annualBiasQuery"] /= "none" =>
        /\ \A i \in 1..Len(completeDates) :
              Cardinality({y \in Years :
                  [snapshot |-> strftime(completeDates[i], iso8601)]
                      \in AnnualSnapshots(<<"gfs", y>>)}) = 1
        /\ \A y \in Years :
              AnnualSnapshots(<<"gfs", y>>) = AnnualSnapshots(<<"era5", y>>)
        /\ UNION {AnnualSnapshots(<<"gfs", y>>) : y \in Years}
              = Range(queries["biasQuery"].json.layers[1].temporal.intervals)

=============================================================================
